---- MODULE Spec2Model ----
(***************************************************************************)
(* The delimiter annotator of annotate-delimiters.js as a state machine.   *)
(* One call of annotate(content, cfg, palette, seed) is one behaviour: the *)
(* inputs are drawn in Init, every iteration of the scan loop and of the   *)
(* end-of-input loop is one step.  SpecTwice calls annotate twice, SpecCli *)
(* is a run of the command (main), SpecExt the editor extension that       *)
(* shows a sidecar.                                                        *)
(*                                                                         *)
(* Characters are written as short names: "tri" is the triangle U+25B3,    *)
(* "sq" the square U+25A2, "circ" the circle U+25CB, "nl" the newline; any *)
(* other name is an ordinary character.  Indexes are those of the code     *)
(* (0-based); content[i] of the code is content[i + 1] here.               *)
(***************************************************************************)
EXTENDS Integers, Sequences, FiniteSets, TLC

VARIABLES content, symbolMap, palette, seed,
          t, i, line, col, stack, ranges, usedColors, eofPos, pc, opened,
          prev,
          argv, files, mainPc, exited, stderr, frame,
          lifecycle, decorationTypes, subscriptions, timer,
          activeTextEditor, sidecar, created, disposed, decorations,
          refreshed,
          buildArgs, env, themes, buildPc, exitStatus, console

vars == <<content, symbolMap, palette, seed,
          t, i, line, col, stack, ranges, usedColors, eofPos, pc, opened,
          prev,
          argv, files, mainPc, exited, stderr, frame,
          lifecycle, decorationTypes, subscriptions, timer,
          activeTextEditor, sidecar, created, disposed, decorations,
          refreshed,
          buildArgs, env, themes, buildPc, exitStatus, console>>

\* the process around annotate: command line, file system, main's frame
cliVars == <<argv, files, mainPc, exited, stderr, frame>>

\* the editor extension, its host and the sidecar it reads
extVars ==
  <<lifecycle, decorationTypes, subscriptions, timer,
    activeTextEditor, sidecar, created, disposed, decorations, refreshed>>

\* the theme build: arguments, environment, the files under themes/
buildVars == <<buildArgs, env, themes, buildPc, exitStatus, console>>

\* what annotate itself never touches
outside == <<cliVars, extVars, buildVars>>

inputs == <<content, symbolMap, palette, seed>>

----------------------------------------------------------------------------
(* 32-bit words.  TLC's integers are 32-bit signed, so an unsigned 32-bit  *)
(* word is kept as <<high 16 bits, low 16 bits>>.                          *)

Half == 2^16

Byte == 2^8

\* seed >>> 0 for a non-negative seed below 2^31
ToUint32(n) == <<n \div Half, n % Half>>

RECURSIVE Xor16(_, _, _)
Xor16(a, b, n) ==
  IF n = 0 THEN 0
  ELSE ((a + b) % 2) + 2 * Xor16(a \div 2, b \div 2, n - 1)

RECURSIVE Or16(_, _, _)
Or16(a, b, n) ==
  IF n = 0 THEN 0
  ELSE (IF a % 2 = 1 \/ b % 2 = 1 THEN 1 ELSE 0)
       + 2 * Or16(a \div 2, b \div 2, n - 1)

\* a ^ b
Xor32(a, b) == <<Xor16(a[1], b[1], 16), Xor16(a[2], b[2], 16)>>

\* k | a, for a constant k below 2^16
OrLow(k, a) == <<a[1], Or16(k, a[2], 16)>>

\* a >>> n, for 0 < n < 16
Shr(a, n) ==
  <<a[1] \div 2^n, (a[1] % 2^n) * 2^(16 - n) + a[2] \div 2^n>>

\* a + b modulo 2^32
Add32(a, b) ==
  LET lo == a[2] + b[2]
  IN  <<(a[1] + b[1] + lo \div Half) % Half, lo % Half>>

\* (x * y) mod 2^16 for x, y below 2^16, by bytes of x
MulLow16(x, y) == ((x % Byte) * y + (((x \div Byte) * y) % Byte) * Byte) % Half

\* x * y as a 32-bit word for x, y below 2^16, by bytes of x
Mul16(x, y) ==
  LET p0 == (x % Byte) * y
      p1 == (x \div Byte) * y
  IN  Add32(<<p0 \div Half, p0 % Half>>,
            <<(p1 \div Byte) % Half, (p1 % Byte) * Byte>>)

\* Math.imul(a, b): the low 32 bits of the product
Imul(a, b) ==
  LET low == Mul16(a[2], b[2])
      mid == (MulLow16(a[1], b[2]) + MulLow16(a[2], b[1])) % Half
  IN  Add32(low, <<mid, 0>>)

\* 0x6D2B79F5
Increment == <<27947, 31221>>

(* One call of the generator returned by mulberry32: the new internal      *)
(* state t and the 32-bit numerator r of the result r / 4294967296.  The   *)
(* code's t grows as a double; only its low 32 bits enter the bit          *)
(* operations, so t is kept modulo 2^32.                                   *)
mulberry32(tt) ==
  LET t1 == Add32(tt, Increment)
      r1 == Imul(Xor32(t1, Shr(t1, 15)), OrLow(1, t1))
      r2 == Xor32(r1, Add32(r1, Imul(Xor32(r1, Shr(r1, 7)), OrLow(61, r1))))
  IN  [t |-> t1, r |-> Xor32(r2, Shr(r2, 14))]

\* Math.floor((r / 4294967296) * n) for a length n below 2^15
RandIndex(r, n) == (r[1] * n + (r[2] * n) \div Half) \div Half

----------------------------------------------------------------------------
(* Values of the program.                                                  *)

\* a falsy configuration entry (null, false, 0, "")
null == [null |-> TRUE]

\* the value of eofPos before line 156 declares it
undefined == [undefined |-> TRUE]

NEUTRAL == "#CCCCCC"

defaultPalette ==
  << "#FF6B6B", "#FFD166", "#6ED796", "#64D6E2", "#89B4FA", "#C792EA",
     "#F9E2AF", "#A6E3A1", "#F38BA8", "#74C7EC", "#FAB387", "#B4BEFE" >>

\* buildDefaultConfig().symbols
buildDefaultConfig ==
  ("tri" :> [kind |-> "onoff", color |-> "#FFE26A"])
  @@ ("sq" :> [kind |-> "random"])
  @@ ("circ" :> [kind |-> "random"])

Position(l, c, idx) == [line |-> l, col |-> c, index |-> idx]

\* spec.kind; an entry such as true or {} has none
Kind(spec) == IF "kind" \in DOMAIN spec THEN spec.kind ELSE "undefined"

\* spec.color || '#CCCCCC'
ColorOr(spec) ==
  IF "color" \in DOMAIN spec /\ spec.color # "" THEN spec.color ELSE NEUTRAL

\* const delimiters = new Set(Object.keys(symbolMap))
delimiters == DOMAIN symbolMap

\* faulty variant of pickColor: no guard for the empty palette (arr[0])
pickColorNoGuard(tt, pal, usedSet) ==
  LET unused == SelectSeq(pal, LAMBDA c : c \notin usedSet)
      arr    == IF Len(unused) > 0 THEN unused ELSE pal
      m      == mulberry32(tt)
      color  == IF Len(arr) = 0 THEN "undefined"
                ELSE arr[RandIndex(m.r, Len(arr)) + 1]
  IN  [color |-> color, t |-> m.t, used |-> usedSet \cup {color}]

\* faulty variant of pickColor: unused colours are not preferred
pickColorAny(tt, pal, usedSet) ==
  IF Len(pal) = 0 THEN [color |-> NEUTRAL, t |-> tt, used |-> usedSet]
  ELSE LET m     == mulberry32(tt)
           color == pal[RandIndex(m.r, Len(pal)) + 1]
       IN  [color |-> color, t |-> m.t, used |-> usedSet \cup {color}]

(* pickColor(rand, palette, usedSet): the colour, the generator's state    *)
(* after the call and the used set after the call.                         *)
pickColor(tt, pal, usedSet) ==
  IF Len(pal) = 0 THEN [color |-> NEUTRAL, t |-> tt, used |-> usedSet]
  ELSE LET unused == SelectSeq(pal, LAMBDA c : c \notin usedSet)
           arr    == IF Len(unused) > 0 THEN unused ELSE pal
           m      == mulberry32(tt)
           color  == arr[RandIndex(m.r, Len(arr)) + 1]
       IN  [color |-> color, t |-> m.t, used |-> usedSet \cup {color}]

\* faulty variant of OpenColor: a fixed colour is not recorded as used
OpenColorFixedUnrecorded(spec, tt, pal, usedSet) ==
  IF Kind(spec) = "onoff"
  THEN [color |-> ColorOr(spec), t |-> tt, used |-> usedSet]
  ELSE IF Kind(spec) = "random"
  THEN pickColor(tt, pal, usedSet)
  ELSE [color |-> NEUTRAL, t |-> tt, used |-> usedSet]

\* the colour of a region opened by a symbol configured as spec
OpenColor(spec, tt, pal, usedSet) ==
  IF Kind(spec) = "onoff"
  THEN [color |-> ColorOr(spec), t |-> tt, used |-> usedSet \cup {ColorOr(spec)}]
  ELSE IF Kind(spec) = "random"
  THEN pickColor(tt, pal, usedSet)
  ELSE [color |-> NEUTRAL, t |-> tt, used |-> usedSet]

\* faulty variant of ClosedRange: a closed range says open: false
ClosedRangeOpenFalse(open, ch, l, c, idx) ==
  [symbol |-> ch, color |-> open.color, start |-> open.start,
   end |-> Position(l, c, idx), open |-> FALSE]

\* faulty variant of ClosedRange: the end is taken after the cursor advanced
ClosedRangeAfterAdvance(open, ch, l, c, idx) ==
  [symbol |-> ch, color |-> open.color, start |-> open.start,
   end |-> Position(l, c + 1, idx + 1)]

\* the range pushed by a closing occurrence of ch at the cursor (l, c, idx)
ClosedRange(open, ch, l, c, idx) ==
  [symbol |-> ch, color |-> open.color, start |-> open.start,
   end |-> Position(l, c, idx)]

\* the range pushed for a region still open at end of input
OpenRange(open, eof) ==
  [symbol |-> open.symbol, color |-> open.color, start |-> open.start,
   end |-> eof, open |-> TRUE]

\* faulty variant of OpenRegion: the colour is stored as the symbol
OpenRegionKeyedByColor(ch, color, l, c, idx) ==
  [symbol |-> color, color |-> color, start |-> Position(l, c, idx)]

\* the stack entry pushed by an opening occurrence
OpenRegion(ch, color, l, c, idx) ==
  [symbol |-> ch, color |-> color, start |-> Position(l, c, idx)]

Front(s) == SubSeq(s, 1, Len(s) - 1)

\* faulty variant of Top: the oldest entry (stack[0]) is read
Bottom(s) == s[1]

Top(s) == s[Len(s)]

----------------------------------------------------------------------------
(* Inputs.                                                                 *)

MaxLen == 4

MaxSeed == 1

MaxLenTwice == 3

Alphabet == {"tri", "sq", "x", "nl"}

BoundedTexts == UNION {[1..n -> Alphabet] : n \in 0..MaxLen}

ExampleTexts ==
  { <<"tri", "x", "sq", "y", "sq", "z", "tri">>,
    <<"a", "nl", "tri", "b", "tri">>,
    <<"tri", "sq", "tri", "sq", "tri">>,
    <<"sq", "circ", "tri", "tri", "circ", "sq">> }

Texts == BoundedTexts \cup ExampleTexts

\* the texts that are annotated twice
TextsTwice == {q \in Texts : Len(q) <= MaxLenTwice} \cup ExampleTexts

Seeds == 0..MaxSeed

Palettes == { <<>>, <<"#FFE26A", "#FF6B6B">>, defaultPalette }

\* configurations other than the default one
OtherConfigs ==
  { <<>>,
    ("sq" :> [kind |-> "random"]),
    ("tri" :> null) @@ ("sq" :> [kind |-> "random"]),
    ("tri" :> [kind |-> "onoff"]) @@ ("sq" :> [value |-> TRUE]),
    ("nl" :> [kind |-> "random"]) @@ ("tri" :> [kind |-> "onoff", color |-> "#FFE26A"]) }

Inputs ==
  (Texts \X {buildDefaultConfig} \X Palettes \X Seeds)
  \cup (Texts \X OtherConfigs \X {defaultPalette} \X {0})

----------------------------------------------------------------------------
(* The command line and the file system.  A file that exists holds either  *)
(* text that JSON.parse rejects, [text |-> ...], or JSON text, kept as the *)
(* value it parses to: [array |-> ...] or [object |-> ...].  A path with   *)
(* no file maps to absent.                                                 *)

absent == [absent |-> TRUE]

\* the content of the annotated file
SourceText == <<"tri", "x", "tri", "sq", "nl">>

\* the file system before the command runs
InitialFiles ==
  ("src.txt" :> [text |-> SourceText])
  @@ ("src.txt.ann.json" :> absent)
  @@ ("gone.txt" :> absent)
  @@ ("cfg.json" :>
        [object |-> [symbols |-> ("x" :> null) @@ ("sq" :> [kind |-> "random"])]])
  @@ ("pal.json" :> [array |-> <<"#FFE26A", "#FF6B6B">>])
  @@ ("colors.json" :> [object |-> [colors |-> [array |-> <<"#FF6B6B">>]]])
  @@ ("bad.json" :> [text |-> <<"{">>])
  @@ ("gone.json" :> absent)
  @@ ("out.json" :> absent)

FileArgs == { <<>>, <<"src.txt">>, <<"gone.txt">> }

ConfigArgs ==
  { <<>>, <<"--config", "cfg.json">>, <<"-c", "bad.json">>,
    <<"--config", "gone.json">> }

PaletteArgs ==
  { <<>>, <<"--palette", "pal.json">>, <<"-p", "colors.json">>,
    <<"--palette", "bad.json">>, <<"-p", "gone.json">> }

OutArgs == { <<>>, <<"--out", "out.json">>, <<"-o", "src.txt">> }

SeedArgs == { <<>>, <<"--seed", "1">>, <<"--seed", "x">>, <<"--seed">> }

\* process.argv
Argvs ==
  { <<"node", "annotate-delimiters.js">> \o f \o c \o p \o o \o s :
      f \in FileArgs, c \in ConfigArgs, p \in PaletteArgs, o \in OutArgs,
      s \in SeedArgs }

\* fs.existsSync(path)
existsSync(fs, path) == path \in DOMAIN fs /\ fs[path] # absent

\* `${file}.ann.json`
AnnJson(file) ==
  IF file = "src.txt" THEN "src.txt.ann.json" ELSE "gone.txt.ann.json"

\* path.resolve(file)
Resolve(file) == <<"cwd", file>>

\* parseInt(s, 10) || 0 for the strings that occur on the command line
ParseIntOr0(s) == IF s = "1" THEN 1 ELSE 0

\* out.name = value
SetField(out, name, value) == (name :> value) @@ out

(* The loop of parseArgs from argv[k - 1] on.  An option takes the next    *)
(* element as its value, whatever it is; an option that is the last        *)
(* element gets undefined, which reads as an option never given.           *)
RECURSIVE parseFrom(_, _, _)
parseFrom(av, k, out) ==
  IF k > Len(av) THEN out
  ELSE LET a     == av[k]
           last  == k = Len(av)
           given(name) == IF last THEN out ELSE SetField(out, name, av[k + 1])
       IN  IF a \in {"--palette", "-p"} THEN parseFrom(av, k + 2, given("palette"))
           ELSE IF a \in {"--config", "-c"} THEN parseFrom(av, k + 2, given("config"))
           ELSE IF a \in {"--out", "-o"} THEN parseFrom(av, k + 2, given("out"))
           ELSE IF a = "--seed"
           THEN parseFrom(av, k + 2,
                  SetField(out, "seed", IF last THEN 0 ELSE ParseIntOr0(av[k + 1])))
           ELSE parseFrom(av, k + 1,
                  SetField(out, "positional", Append(out.positional, a)))

\* parseArgs(argv); positional is the array out._
parseArgs(av) == parseFrom(av, 3, [positional |-> <<>>])

\* faulty variant of loadConfig: JSON.parse is outside the try
loadConfigUnguarded(fs, args) ==
  IF "config" \notin DOMAIN args THEN [threw |-> FALSE, value |-> null]
  ELSE IF ~existsSync(fs, args.config) THEN [threw |-> TRUE, value |-> null]
  ELSE IF "text" \in DOMAIN fs[args.config] THEN [threw |-> TRUE, value |-> null]
  ELSE [threw |-> FALSE, value |-> fs[args.config]]

(* loadConfig(args.config): readFileSync throws when the file cannot be    *)
(* read, a failure of JSON.parse is caught and gives null.                 *)
loadConfig(fs, args) ==
  IF "config" \notin DOMAIN args THEN [threw |-> FALSE, value |-> null]
  ELSE IF ~existsSync(fs, args.config) THEN [threw |-> TRUE, value |-> null]
  ELSE IF "text" \in DOMAIN fs[args.config] THEN [threw |-> FALSE, value |-> null]
  ELSE [threw |-> FALSE, value |-> fs[args.config]]

\* Array.isArray(j)
IsArray(j) == "array" \in DOMAIN j

(* loadPalette(args.palette): the array in the file, the array colors of  *)
(* the object in the file, or null.                                        *)
loadPalette(fs, args) ==
  IF "palette" \notin DOMAIN args THEN [threw |-> FALSE, value |-> null]
  ELSE IF ~existsSync(fs, args.palette) THEN [threw |-> TRUE, value |-> null]
  ELSE LET j == fs[args.palette]
       IN  IF "text" \in DOMAIN j THEN [threw |-> FALSE, value |-> null]
           ELSE IF IsArray(j) THEN [threw |-> FALSE, value |-> j]
           ELSE IF "colors" \in DOMAIN j.object /\ IsArray(j.object.colors)
           THEN [threw |-> FALSE, value |-> j.object.colors]
           ELSE [threw |-> FALSE, value |-> null]

\* value || fallback, for a value that is null, an array or an object
OrElse(value, fallback) == IF "null" \in DOMAIN value THEN fallback ELSE value

\* cfg.symbols, where the configuration has that property
HasSymbols(cfg) == "object" \in DOMAIN cfg /\ "symbols" \in DOMAIN cfg.object

\* cfg.symbols || {}
SymbolsOf(cfg) == IF HasSymbols(cfg) THEN cfg.object.symbols ELSE <<>>

\* JSON.stringify(result, null, 2), as the value it parses back to
Stringify(result) == [object |-> result]

\* no command is running
CliIdle ==
  /\ argv = <<>>
  /\ files = InitialFiles
  /\ mainPc = "idle"
  /\ exited = <<>>
  /\ stderr = <<>>
  /\ frame = <<>>

----------------------------------------------------------------------------
(* The editor extension.  A decoration type is known by the number of the  *)
(* createTextEditorDecorationType call that made it: created[id] is its    *)
(* colour, decorations[id] the ranges the editor shows with it.  The       *)
(* sidecar is a file as above.                                             *)

MaxRanges == 2

\* a position as annotate writes it
Pos(l, c) == [line |-> l, col |-> c, index |-> c]

\* the elements a ranges array is made of
RangeEntries ==
  { [start |-> Pos(0, 0), end |-> Pos(0, 2), symbol |-> "tri",
     color |-> "#FFE26A"],
    [start |-> [col |-> 0 - 1], end |-> Pos(1, 3), symbol |-> "sq",
     color |-> "#FF6B6B", open |-> TRUE],
    [start |-> Pos(0, 0), end |-> Pos(0, 2), symbol |-> "tri"],
    [end |-> Pos(0, 2), symbol |-> "tri", color |-> "#FFE26A"],
    null }

RangeLists == UNION {[1..n -> RangeEntries] : n \in 0..MaxRanges}

\* what the sidecar of the edited file can hold
Sidecars ==
  { absent, [text |-> <<"{">>], [object |-> [version |-> 1]],
    [array |-> <<>>] }
  \cup {[object |-> [version |-> 1, ranges |-> [array |-> rs]]] :
          rs \in RangeLists}

\* the documents that are saved or changed
Documents == {"src.txt", "src.txt.ann.json", "other.txt"}

\* what activate pushes to context.subscriptions
Registrations ==
  { "inlineColorAnnotator.refresh", "onDidChangeActiveTextEditor",
    "onDidSaveTextDocument", "onDidChangeTextDocument" }

\* getSidecarPath(filePath) names the document doc
IsSidecar(doc) == doc = "src.txt.ann.json"

(* readAnnotations(filePath), sc being what is at the sidecar path: null   *)
(* when there is no file, when JSON.parse throws, and when the value has   *)
(* no array ranges.                                                        *)
readAnnotations(sc) ==
  IF sc = absent THEN null
  ELSE IF "text" \in DOMAIN sc THEN null
  ELSE IF "object" \notin DOMAIN sc THEN null
  ELSE IF "ranges" \notin DOMAIN sc.object THEN null
  ELSE IF ~IsArray(sc.object.ranges) THEN null
  ELSE sc.object

\* Math.max(0, p.name || 0)
AtLeast0(p, name) ==
  IF name \in DOMAIN p /\ p[name] > 0 THEN p[name] ELSE 0

\* new vscode.Position(Math.max(0, p.line || 0), Math.max(0, p.col || 0))
ToPosition(p) ==
  [line |-> AtLeast0(p, "line"), character |-> AtLeast0(p, "col")]

\* position a is after position b
IsAfter(a, b) ==
  a.line > b.line \/ (a.line = b.line /\ a.character > b.character)

\* new vscode.Range(start, end): the two positions, the earlier one first
ToRange(r) ==
  LET a == ToPosition(r.start)
      b == ToPosition(r.end)
  IN  IF IsAfter(a, b) THEN [start |-> b, end |-> a]
      ELSE [start |-> a, end |-> b]

\* the negation of the test that makes applyAnnotations skip an element
WellFormedEntry(r) ==
  /\ "null" \notin DOMAIN r
  /\ "start" \in DOMAIN r
  /\ "end" \in DOMAIN r
  /\ "color" \in DOMAIN r

\* the keys of buckets, in the order in which they were set
RECURSIVE BucketColors(_)
BucketColors(rs) ==
  IF rs = <<>> THEN <<>>
  ELSE LET before == BucketColors(Front(rs))
           r      == rs[Len(rs)]
       IN  IF WellFormedEntry(r) /\ \A k \in DOMAIN before : before[k] # r.color
           THEN Append(before, r.color)
           ELSE before

\* buckets.get(color)
RECURSIVE Bucket(_, _)
Bucket(rs, color) ==
  IF rs = <<>> THEN <<>>
  ELSE LET r == rs[Len(rs)]
       IN  IF WellFormedEntry(r) /\ r.color = color
           THEN Append(Bucket(Front(rs), color), ToRange(r))
           ELSE Bucket(Front(rs), color)

(* The part of the state the functions below work on: types is the map     *)
(* decorationTypes, from colour to decoration type.                        *)
ExtState(types, made, shown) ==
  [types |-> types, created |-> made, decorations |-> shown]

\* ensureDecoration(color): st afterwards; the type is st.types[color] then
ensureDecoration(st, color) ==
  IF color \in DOMAIN st.types THEN st
  ELSE ExtState((color :> Len(st.created) + 1) @@ st.types,
                Append(st.created, color), Append(st.decorations, <<>>))

\* decorationTypes.values()
Values(types) == {types[c] : c \in DOMAIN types}

\* faulty variant of clearAll: nothing is cleared
clearNone(st) == st

\* clearAll(editor)
clearAll(st) ==
  [st EXCEPT !.decorations =
     [id \in DOMAIN st.decorations |->
        IF id \in Values(st.types) THEN <<>> ELSE st.decorations[id]]]

\* the loop over buckets in applyAnnotations, for the colours cols
RECURSIVE setBuckets(_, _, _)
setBuckets(st, rs, cols) ==
  IF cols = <<>> THEN st
  ELSE LET ensured == ensureDecoration(st, cols[1])
           type    == ensured.types[cols[1]]
       IN  setBuckets([ensured EXCEPT !.decorations[type] = Bucket(rs, cols[1])],
                      rs, SubSeq(cols, 2, Len(cols)))

\* applyAnnotations(editor, data)
applyAnnotations(st, data) ==
  setBuckets(clearAll(st), data.ranges.array, BucketColors(data.ranges.array))

\* refreshActive(), editor being vscode.window.activeTextEditor
refreshActive(st, editor, sc) ==
  IF editor = "none" THEN st
  ELSE LET data == readAnnotations(sc)
       IN  IF data = null THEN clearAll(st) ELSE applyAnnotations(st, data)

\* the extension has not been loaded
ExtIdle ==
  /\ lifecycle = "unloaded"
  /\ decorationTypes = undefined
  /\ subscriptions = {}
  /\ timer = FALSE
  /\ activeTextEditor = "none"
  /\ sidecar = absent
  /\ created = <<>>
  /\ disposed = {}
  /\ decorations = <<>>
  /\ refreshed = FALSE

----------------------------------------------------------------------------
(* The deterministic theme build.  It takes the theme's name and accent    *)
(* from the environment, where "" stands for a variable that is not set,   *)
(* and writes themes/<slug>.json; themes maps a slug to what that file     *)
(* holds.  Every colour of the theme is computed from the accent alone, so *)
(* the accent stands for the colours.                                      *)

\* process.argv.slice(2)
BuildArgLists == { <<>>, <<"--check">>, <<"--verbose", "--check">>, <<"check">> }

ThemeNames == {"", "Electric Lime", "My Theme!", "!!!"}

BaseHexes == {"", "32CD32", "#abc", "lime"}

\* process.env.THEME_NAME || 'Electric Lime'
THEME_NAME == IF env.THEME_NAME = "" THEN "Electric Lime" ELSE env.THEME_NAME

\* normalizeHex(hex) for the values of the environment
normalizeHex(hex) ==
  IF hex \in {"32CD32", "#32cd32"} THEN "#32cd32"
  ELSE IF hex = "#abc" THEN "#aabbcc"
  ELSE "#000000"

\* normalizeHex(process.env.BASE_HEX || '#32cd32')
BASE_HEX == normalizeHex(IF env.BASE_HEX = "" THEN "#32cd32" ELSE env.BASE_HEX)

\* the slug of a theme name: lower case, runs of other characters as one '-'
SlugOf(name) ==
  IF name = "Electric Lime" THEN "electric-lime"
  ELSE IF name = "My Theme!" THEN "my-theme"
  ELSE "theme"

Slugs == {"electric-lime", "my-theme", "theme"}

\* the theme of that name and accent
ThemeOf(name, accent) ==
  [name |-> name, type |-> "dark", semanticHighlighting |-> TRUE,
   colors |-> [accent |-> accent], tokenColors |-> [foreground |-> accent]]

\* makeTheme()
makeTheme == ThemeOf(THEME_NAME, BASE_HEX)

\* JSON.stringify(obj, null, 2), followed by a newline or not
JsonText(obj, newline) == [json |-> obj, newline |-> newline]

\* what themes/<slug>.json can hold before the build runs
ThemeFiles(slug) ==
  {absent}
  \cup {JsonText(ThemeOf(name, accent), newline) :
          name \in {n \in ThemeNames \ {""} : SlugOf(n) = slug},
          accent \in {"#32cd32", "#aabbcc"}, newline \in BOOLEAN}

\* const CHECK_MODE = args.includes('--check')
CHECK_MODE == \E k \in DOMAIN buildArgs : buildArgs[k] = "--check"

\* the build is not running
BuildIdle ==
  /\ buildArgs = <<>>
  /\ env = [THEME_NAME |-> "", BASE_HEX |-> ""]
  /\ themes = [slug \in Slugs |-> absent]
  /\ buildPc = "idle"
  /\ exitStatus = <<>>
  /\ console = <<>>

----------------------------------------------------------------------------
(* annotate(content, cfg, palette, seed)                                   *)

\* the value of prev while annotate runs for the first time
noCall == [none |-> TRUE]

Init ==
  /\ \E in \in Inputs :
       /\ content = in[1]
       /\ symbolMap = in[2]
       /\ palette = in[3]
       /\ seed = in[4]
  /\ CliIdle
  /\ ExtIdle
  /\ BuildIdle
  /\ prev = noCall
  /\ t = ToUint32(seed)
  /\ ranges = <<>>
  /\ stack = <<>>
  /\ usedColors = {}
  /\ line = 0
  /\ col = 0
  /\ i = 0
  /\ eofPos = undefined
  /\ pc = "scan"
  /\ opened = <<>>

\* content[i]
ch == content[i + 1]

InLoop == pc = "scan" /\ i < Len(content)

\* if (!spec) continue;
SkipFalsy ==
  /\ InLoop
  /\ ch \in delimiters
  /\ symbolMap[ch] = null
  /\ i' = i + 1
  /\ UNCHANGED <<outside, prev, inputs, t, line, col, stack, ranges, usedColors, eofPos, pc, opened>>

\* faulty variant of Close: the new range is put in front (unshift)
ClosePrepend ==
  /\ InLoop
  /\ ch \in delimiters
  /\ symbolMap[ch] # null
  /\ Len(stack) > 0
  /\ Top(stack).symbol = ch
  /\ stack' = Front(stack)
  /\ ranges' = <<ClosedRange(Top(stack), ch, line, col, i)>> \o ranges
  /\ col' = col + 1
  /\ i' = i + 1
  /\ UNCHANGED <<outside, prev, inputs, t, line, usedColors, eofPos, pc, opened>>

\* faulty variant of Close: the top entry is read but not popped
CloseWithoutPop ==
  /\ InLoop
  /\ ch \in delimiters
  /\ symbolMap[ch] # null
  /\ Len(stack) > 0
  /\ Top(stack).symbol = ch
  /\ ranges' = Append(ranges, ClosedRange(Top(stack), ch, line, col, i))
  /\ col' = col + 1
  /\ i' = i + 1
  /\ UNCHANGED <<outside, prev, inputs, t, line, stack, usedColors, eofPos, pc, opened>>

(* faulty variant of Close: a symbol equal to the top entry's opens a       *)
(* region of its own                                                       *)
CloseOpensAgain ==
  /\ InLoop
  /\ ch \in delimiters
  /\ symbolMap[ch] # null
  /\ Len(stack) > 0
  /\ Top(stack).symbol = ch
  /\ LET c == OpenColor(symbolMap[ch], t, palette, usedColors)
     IN  /\ stack' = Append(stack, OpenRegion(ch, c.color, line, col, i))
         /\ t' = c.t
         /\ usedColors' = c.used
  /\ opened' = Append(opened, i)
  /\ col' = col + 1
  /\ i' = i + 1
  /\ UNCHANGED <<outside, prev, inputs, line, ranges, eofPos, pc>>

\* top && top.symbol === ch
Close ==
  /\ InLoop
  /\ ch \in delimiters
  /\ symbolMap[ch] # null
  /\ Len(stack) > 0
  /\ Top(stack).symbol = ch
  /\ stack' = Front(stack)
  /\ ranges' = Append(ranges, ClosedRange(Top(stack), ch, line, col, i))
  /\ col' = col + 1
  /\ i' = i + 1
  /\ UNCHANGED <<outside, prev, inputs, t, line, usedColors, eofPos, pc, opened>>

(* faulty variant of Open: a symbol that is open deeper in the stack       *)
(* closes that region (and drops the regions above it) instead of opening. *)
OpenOrCloseDeeper ==
  /\ InLoop
  /\ ch \in delimiters
  /\ symbolMap[ch] # null
  /\ ~(Len(stack) > 0 /\ Top(stack).symbol = ch)
  /\ IF \E j \in 1..Len(stack) : stack[j].symbol = ch
     THEN LET j == CHOOSE k \in 1..Len(stack) :
                     /\ stack[k].symbol = ch
                     /\ \A m \in (k + 1)..Len(stack) : stack[m].symbol # ch
          IN  /\ stack' = SubSeq(stack, 1, j - 1)
              /\ ranges' = Append(ranges, ClosedRange(stack[j], ch, line, col, i))
              /\ UNCHANGED <<t, usedColors, opened>>
     ELSE LET c == OpenColor(symbolMap[ch], t, palette, usedColors)
          IN  /\ stack' = Append(stack, OpenRegion(ch, c.color, line, col, i))
              /\ t' = c.t
              /\ usedColors' = c.used
              /\ opened' = Append(opened, i)
              /\ ranges' = ranges
  /\ col' = col + 1
  /\ i' = i + 1
  /\ UNCHANGED <<outside, prev, inputs, line, eofPos, pc>>

(* faulty variant of Open: a symbol that is open deeper in the stack       *)
(* closes that region and leaves the regions above it open.                *)
OpenOrCloseAnywhere ==
  /\ InLoop
  /\ ch \in delimiters
  /\ symbolMap[ch] # null
  /\ ~(Len(stack) > 0 /\ Top(stack).symbol = ch)
  /\ IF \E j \in 1..Len(stack) : stack[j].symbol = ch
     THEN LET j == CHOOSE k \in 1..Len(stack) :
                     /\ stack[k].symbol = ch
                     /\ \A m \in (k + 1)..Len(stack) : stack[m].symbol # ch
          IN  /\ stack' = SubSeq(stack, 1, j - 1)
                             \o SubSeq(stack, j + 1, Len(stack))
              /\ ranges' = Append(ranges, ClosedRange(stack[j], ch, line, col, i))
              /\ UNCHANGED <<t, usedColors, opened>>
     ELSE LET c == OpenColor(symbolMap[ch], t, palette, usedColors)
          IN  /\ stack' = Append(stack, OpenRegion(ch, c.color, line, col, i))
              /\ t' = c.t
              /\ usedColors' = c.used
              /\ opened' = Append(opened, i)
              /\ ranges' = ranges
  /\ col' = col + 1
  /\ i' = i + 1
  /\ UNCHANGED <<outside, prev, inputs, line, eofPos, pc>>

Open ==
  /\ InLoop
  /\ ch \in delimiters
  /\ symbolMap[ch] # null
  /\ ~(Len(stack) > 0 /\ Top(stack).symbol = ch)
  /\ LET c == OpenColor(symbolMap[ch], t, palette, usedColors)
     IN  /\ stack' = Append(stack, OpenRegion(ch, c.color, line, col, i))
         /\ t' = c.t
         /\ usedColors' = c.used
  /\ opened' = Append(opened, i)
  /\ col' = col + 1
  /\ i' = i + 1
  /\ UNCHANGED <<outside, prev, inputs, line, ranges, eofPos, pc>>

\* faulty variant of Newline: the column is not reset
NewlineKeepsCol ==
  /\ InLoop
  /\ ch \notin delimiters
  /\ ch = "nl"
  /\ line' = line + 1
  /\ i' = i + 1
  /\ UNCHANGED <<outside, prev, inputs, t, col, stack, ranges, usedColors, eofPos, pc, opened>>

\* faulty variant of Newline: the line is not incremented
NewlineKeepsLine ==
  /\ InLoop
  /\ ch \notin delimiters
  /\ ch = "nl"
  /\ col' = 0
  /\ i' = i + 1
  /\ UNCHANGED <<outside, prev, inputs, t, line, stack, ranges, usedColors, eofPos, pc, opened>>

\* if (ch === '\n') { line += 1; col = 0; }
Newline ==
  /\ InLoop
  /\ ch \notin delimiters
  /\ ch = "nl"
  /\ line' = line + 1
  /\ col' = 0
  /\ i' = i + 1
  /\ UNCHANGED <<outside, prev, inputs, t, stack, ranges, usedColors, eofPos, pc, opened>>

\* else { col += 1; }
Plain ==
  /\ InLoop
  /\ ch \notin delimiters
  /\ ch # "nl"
  /\ col' = col + 1
  /\ i' = i + 1
  /\ UNCHANGED <<outside, prev, inputs, t, line, stack, ranges, usedColors, eofPos, pc, opened>>

\* faulty variant of EndScan: the index of the last character is taken
EndScanAtLastChar ==
  /\ pc = "scan"
  /\ i >= Len(content)
  /\ eofPos' = Position(line, col, Len(content) - 1)
  /\ pc' = "drain"
  /\ UNCHANGED <<outside, prev, inputs, t, i, line, col, stack, ranges, usedColors, opened>>

\* const eofPos = { line, col, index: content.length };
EndScan ==
  /\ pc = "scan"
  /\ i >= Len(content)
  /\ eofPos' = Position(line, col, Len(content))
  /\ pc' = "drain"
  /\ UNCHANGED <<outside, prev, inputs, t, i, line, col, stack, ranges, usedColors, opened>>

\* faulty variant of Drain: unclosed regions are dropped
DrainDrops ==
  /\ pc = "drain"
  /\ Len(stack) > 0
  /\ stack' = Front(stack)
  /\ UNCHANGED <<outside, prev, inputs, t, i, line, col, ranges, usedColors, eofPos, pc, opened>>

\* faulty variant of Drain: the stack is emptied from the bottom (shift)
DrainFifo ==
  /\ pc = "drain"
  /\ Len(stack) > 0
  /\ stack' = Tail(stack)
  /\ ranges' = Append(ranges, OpenRange(Head(stack), eofPos))
  /\ UNCHANGED <<outside, prev, inputs, t, i, line, col, usedColors, eofPos, pc, opened>>

\* while (stack.length) { const open = stack.pop(); ranges.push(...) }
Drain ==
  /\ pc = "drain"
  /\ Len(stack) > 0
  /\ stack' = Front(stack)
  /\ ranges' = Append(ranges, OpenRange(Top(stack), eofPos))
  /\ UNCHANGED <<outside, prev, inputs, t, i, line, col, usedColors, eofPos, pc, opened>>

\* return { ranges };
Return ==
  /\ pc = "drain"
  /\ Len(stack) = 0
  /\ pc' = "done"
  /\ UNCHANGED <<outside, prev, inputs, t, i, line, col, stack, ranges, usedColors, eofPos, opened>>

Next ==
  \/ SkipFalsy
  \/ Close
  \/ Open
  \/ Newline
  \/ Plain
  \/ EndScan
  \/ Drain
  \/ Return

Spec == Init /\ [][Next]_vars

----------------------------------------------------------------------------
(* Two calls of annotate in one process: the same text and symbols, any    *)
(* palette and seed the second time.  prev keeps what the first call was   *)
(* given and what it returned.                                             *)

InitTwice ==
  /\ Init
  /\ content \in TextsTwice

\* faulty variant of CallAgain: the generator is shared by the calls
CallAgainSharedRand ==
  /\ pc = "done"
  /\ prev = noCall
  /\ prev' = [ranges |-> ranges, palette |-> palette, seed |-> seed]
  /\ \E p \in Palettes, s \in Seeds :
       /\ palette' = p
       /\ seed' = s
  /\ ranges' = <<>>
  /\ stack' = <<>>
  /\ usedColors' = {}
  /\ line' = 0
  /\ col' = 0
  /\ i' = 0
  /\ eofPos' = undefined
  /\ pc' = "scan"
  /\ opened' = <<>>
  /\ UNCHANGED <<outside, content, symbolMap, t>>

\* annotate is called again: its locals are created anew (lines 112-120)
CallAgain ==
  /\ pc = "done"
  /\ prev = noCall
  /\ prev' = [ranges |-> ranges, palette |-> palette, seed |-> seed]
  /\ \E p \in Palettes, s \in Seeds :
       /\ palette' = p
       /\ seed' = s
       /\ t' = ToUint32(s)
  /\ ranges' = <<>>
  /\ stack' = <<>>
  /\ usedColors' = {}
  /\ line' = 0
  /\ col' = 0
  /\ i' = 0
  /\ eofPos' = undefined
  /\ pc' = "scan"
  /\ opened' = <<>>
  /\ UNCHANGED <<outside, content, symbolMap>>

NextTwice ==
  \/ SkipFalsy
  \/ Close
  \/ Open
  \/ Newline
  \/ Plain
  \/ EndScan
  \/ Drain
  \/ Return
  \/ CallAgain

SpecTwice == InitTwice /\ [][NextTwice]_vars

----------------------------------------------------------------------------
(* main(), run once per process, with the call of annotate made of the     *)
(* steps above.  An exception thrown in main is caught at the top level,   *)
(* which calls die.                                                        *)

annotateVars ==
  <<content, symbolMap, palette, seed,
    t, i, line, col, stack, ranges, usedColors, eofPos, pc, opened, prev>>

\* annotate has not been called
AnnotateIdle ==
  /\ content = <<>>
  /\ symbolMap = <<>>
  /\ palette = <<>>
  /\ seed = 0
  /\ t = ToUint32(0)
  /\ ranges = <<>>
  /\ stack = <<>>
  /\ usedColors = {}
  /\ line = 0
  /\ col = 0
  /\ i = 0
  /\ eofPos = undefined
  /\ pc = "idle"
  /\ opened = <<>>
  /\ prev = noCall

InitCli ==
  /\ AnnotateIdle
  /\ ExtIdle
  /\ BuildIdle
  /\ argv \in Argvs
  /\ files = InitialFiles
  /\ mainPc = "start"
  /\ exited = <<>>
  /\ stderr = <<>>
  /\ frame = <<>>

\* const args = parseArgs(process.argv)
args == parseArgs(argv)

\* const file = args._[0]
file == args.positional[1]

\* die(msg): console.error(msg); process.exit(1)
die(msg) ==
  /\ stderr' = Append(stderr, msg)
  /\ exited' = Append(exited, 1)
  /\ mainPc' = "exited"

\* if (args._.length < 1) die('Usage: ...')
MainUsage ==
  /\ mainPc = "start"
  /\ Len(args.positional) < 1
  /\ die("Usage")
  /\ UNCHANGED <<buildVars, extVars, annotateVars, argv, files, frame>>

\* if (!fs.existsSync(file)) die(`File not found: ${file}`)
MainFileNotFound ==
  /\ mainPc = "start"
  /\ Len(args.positional) >= 1
  /\ ~existsSync(files, file)
  /\ die("File not found")
  /\ UNCHANGED <<buildVars, extVars, annotateVars, argv, files, frame>>

\* const content = fs.readFileSync(file, 'utf8')
MainReadFile ==
  /\ mainPc = "start"
  /\ Len(args.positional) >= 1
  /\ existsSync(files, file)
  /\ frame' = SetField(frame, "content", files[file].text)
  /\ mainPc' = "config"
  /\ UNCHANGED <<buildVars, extVars, annotateVars, argv, files, exited, stderr>>

\* const cfg = loadConfig(args.config) || buildDefaultConfig()
MainLoadConfig ==
  /\ mainPc = "config"
  /\ LET r == loadConfig(files, args)
     IN  IF r.threw
         THEN die("config") /\ UNCHANGED frame
         ELSE /\ frame' = SetField(frame, "cfg",
                   OrElse(r.value, [object |-> [symbols |-> buildDefaultConfig]]))
              /\ mainPc' = "palette"
              /\ UNCHANGED <<exited, stderr>>
  /\ UNCHANGED <<buildVars, extVars, annotateVars, argv, files>>

\* const palette = loadPalette(args.palette) || defaultPalette()
MainLoadPalette ==
  /\ mainPc = "palette"
  /\ LET r == loadPalette(files, args)
     IN  IF r.threw
         THEN die("palette") /\ UNCHANGED frame
         ELSE /\ frame' = SetField(frame, "palette",
                   OrElse(r.value, [array |-> defaultPalette]).array)
              /\ mainPc' = "call"
              /\ UNCHANGED <<exited, stderr>>
  /\ UNCHANGED <<buildVars, extVars, annotateVars, argv, files>>

\* const seed = Number.isFinite(args.seed) ? args.seed : 0
SeedOf(a) == IF "seed" \in DOMAIN a THEN a.seed ELSE 0

\* annotate(content, cfg, palette, seed) is entered (lines 112-120)
MainCallAnnotate ==
  /\ mainPc = "call"
  /\ content' = frame.content
  /\ symbolMap' = SymbolsOf(frame.cfg)
  /\ palette' = frame.palette
  /\ seed' = SeedOf(args)
  /\ t' = ToUint32(SeedOf(args))
  /\ ranges' = <<>>
  /\ stack' = <<>>
  /\ usedColors' = {}
  /\ line' = 0
  /\ col' = 0
  /\ i' = 0
  /\ eofPos' = undefined
  /\ pc' = "scan"
  /\ opened' = <<>>
  /\ mainPc' = "annotate"
  /\ UNCHANGED <<buildVars, extVars, prev, argv, files, exited, stderr, frame>>

\* legend: { symbols: cfg.symbols, palette }
Legend ==
  IF HasSymbols(frame.cfg)
  THEN [symbols |-> frame.cfg.object.symbols, palette |-> frame.palette]
  ELSE [palette |-> frame.palette]

\* const result = { version: 1, file: path.resolve(file), legend, ranges }
Result ==
  [version |-> 1, file |-> Resolve(file), legend |-> Legend, ranges |-> ranges]

\* const outPath = args.out || `${file}.ann.json`
outPath == IF "out" \in DOMAIN args THEN args.out ELSE AnnJson(file)

\* fs.writeFileSync(outPath, JSON.stringify(result, null, 2)); main returns
MainWrite ==
  /\ mainPc = "annotate"
  /\ pc = "done"
  /\ files' = (outPath :> Stringify(Result)) @@ files
  /\ mainPc' = "returned"
  /\ UNCHANGED <<buildVars, extVars, annotateVars, argv, exited, stderr, frame>>

NextCli ==
  \/ MainUsage
  \/ MainFileNotFound
  \/ MainReadFile
  \/ MainLoadConfig
  \/ MainLoadPalette
  \/ MainCallAnnotate
  \/ SkipFalsy
  \/ Close
  \/ Open
  \/ Newline
  \/ Plain
  \/ EndScan
  \/ Drain
  \/ Return
  \/ MainWrite

SpecCli == InitCli /\ [][NextCli]_vars

----------------------------------------------------------------------------
(* The extension in its host.  The host calls activate once, delivers the  *)
(* events and the command to what is registered in context.subscriptions,  *)
(* and on deactivation calls deactivate and disposes the subscriptions.    *)
(* The timer set by activate is not among them.                            *)

Editors == {"none", "src.txt"}

InitExt ==
  /\ AnnotateIdle
  /\ CliIdle
  /\ BuildIdle
  /\ lifecycle = "unloaded"
  /\ decorationTypes = undefined
  /\ subscriptions = {}
  /\ timer = FALSE
  /\ activeTextEditor \in Editors
  /\ sidecar \in Sidecars
  /\ created = <<>>
  /\ disposed = {}
  /\ decorations = <<>>
  /\ refreshed = FALSE

\* the state the functions of the extension start from
Now == ExtState(decorationTypes.map, created, decorations)

\* the state they leave
Becomes(st) ==
  /\ decorationTypes' = [map |-> st.types]
  /\ created' = st.created
  /\ decorations' = st.decorations

(* refreshActive has run for the editor.  refreshed says that a refresh    *)
(* has reached readAnnotations and that neither the sidecar file nor the   *)
(* decoration types have been touched by anything else since.              *)
Refreshes(editor) == refreshed' = (editor # "none" \/ refreshed)

\* activate(context)
Activate ==
  /\ lifecycle = "unloaded"
  /\ decorationTypes' = [map |-> <<>>]
  /\ subscriptions' = Registrations
  /\ timer' = TRUE
  /\ lifecycle' = "active"
  /\ UNCHANGED <<buildVars, cliVars, annotateVars, activeTextEditor, sidecar, created,
                 disposed, decorations, refreshed>>

\* the command inlineColorAnnotator.refresh
RefreshCommand ==
  /\ "inlineColorAnnotator.refresh" \in subscriptions
  /\ Becomes(refreshActive(Now, activeTextEditor, sidecar))
  /\ Refreshes(activeTextEditor)
  /\ UNCHANGED <<buildVars, cliVars, annotateVars, lifecycle, subscriptions, timer,
                 activeTextEditor, sidecar, disposed>>

\* the active editor changes; onDidChangeActiveTextEditor(() => refreshActive())
ChangeActiveTextEditor ==
  /\ \E editor \in Editors :
       /\ activeTextEditor' = editor
       /\ IF "onDidChangeActiveTextEditor" \in subscriptions
          THEN /\ Becomes(refreshActive(Now, editor, sidecar))
               /\ Refreshes(editor)
          ELSE UNCHANGED <<decorationTypes, created, decorations, refreshed>>
  /\ UNCHANGED <<buildVars, cliVars, annotateVars, lifecycle, subscriptions, timer,
                 sidecar, disposed>>

(* A document is saved, which writes its file; onDidSaveTextDocument       *)
(* refreshes for the active document and again for a sidecar.              *)
SaveTextDocument ==
  /\ \E doc \in Documents :
       /\ IF IsSidecar(doc)
          THEN sidecar' \in Sidecars \ {absent}
          ELSE sidecar' = sidecar
       /\ IF "onDidSaveTextDocument" \in subscriptions
          THEN LET isActive ==
                     activeTextEditor # "none" /\ activeTextEditor = doc
                   first ==
                     IF isActive
                     THEN refreshActive(Now, activeTextEditor, sidecar')
                     ELSE Now
                   second ==
                     IF IsSidecar(doc)
                     THEN refreshActive(first, activeTextEditor, sidecar')
                     ELSE first
               IN  /\ Becomes(second)
                   /\ IF activeTextEditor # "none"
                         /\ (isActive \/ IsSidecar(doc))
                      THEN Refreshes(activeTextEditor)
                      ELSE refreshed' = (refreshed /\ ~IsSidecar(doc))
          ELSE /\ refreshed' = (refreshed /\ ~IsSidecar(doc))
               /\ UNCHANGED <<decorationTypes, created, decorations>>
  /\ UNCHANGED <<buildVars, cliVars, annotateVars, lifecycle, subscriptions, timer,
                 activeTextEditor, disposed>>

\* a document changes in the editor; onDidChangeTextDocument
ChangeTextDocument ==
  /\ "onDidChangeTextDocument" \in subscriptions
  /\ \E doc \in Documents :
       IF IsSidecar(doc)
       THEN /\ Becomes(refreshActive(Now, activeTextEditor, sidecar))
            /\ Refreshes(activeTextEditor)
       ELSE UNCHANGED <<decorationTypes, created, decorations, refreshed>>
  /\ UNCHANGED <<buildVars, cliVars, annotateVars, lifecycle, subscriptions, timer,
                 activeTextEditor, sidecar, disposed>>

\* the callback of setTimeout(refreshActive, 100)
TimerFires ==
  /\ timer
  /\ timer' = FALSE
  /\ Becomes(refreshActive(Now, activeTextEditor, sidecar))
  /\ Refreshes(activeTextEditor)
  /\ UNCHANGED <<buildVars, cliVars, annotateVars, lifecycle, subscriptions,
                 activeTextEditor, sidecar, disposed>>

(* deactivate(), after which the host disposes context.subscriptions; a    *)
(* disposed decoration type is removed from the editor, so nothing of what *)
(* the last refresh showed is left.                                        *)
Deactivate ==
  /\ lifecycle = "active"
  /\ disposed' = disposed \cup Values(decorationTypes.map)
  /\ decorations' =
       [id \in DOMAIN decorations |->
          IF id \in Values(decorationTypes.map) THEN <<>> ELSE decorations[id]]
  /\ decorationTypes' = [map |-> <<>>]
  /\ subscriptions' = {}
  /\ lifecycle' = "deactivated"
  /\ refreshed' = FALSE
  /\ UNCHANGED <<buildVars, cliVars, annotateVars, timer, activeTextEditor, sidecar,
                 created>>

\* another program writes or removes the sidecar
SidecarWritten ==
  /\ sidecar' \in Sidecars
  /\ refreshed' = FALSE
  /\ UNCHANGED <<buildVars, cliVars, annotateVars, lifecycle, decorationTypes,
                 subscriptions, timer, activeTextEditor, created, disposed,
                 decorations>>

NextExt ==
  \/ Activate
  \/ RefreshCommand
  \/ ChangeActiveTextEditor
  \/ SaveTextDocument
  \/ ChangeTextDocument
  \/ TimerFires
  \/ Deactivate
  \/ SidecarWritten

SpecExt == InitExt /\ [][NextExt]_vars

----------------------------------------------------------------------------
(* build(), run once per process.                                          *)

InitBuild ==
  /\ AnnotateIdle
  /\ CliIdle
  /\ ExtIdle
  /\ buildArgs \in BuildArgLists
  /\ env \in [THEME_NAME : ThemeNames, BASE_HEX : BaseHexes]
  /\ themes \in {f \in [Slugs -> UNION {ThemeFiles(g) : g \in Slugs}] :
                   \A g \in Slugs : f[g] \in ThemeFiles(g)}
  /\ buildPc = "start"
  /\ exitStatus = <<>>
  /\ console = <<>>

\* const out = path.join(process.cwd(), 'themes', `${slug}.json`)
out == SlugOf(THEME_NAME)

\* const next = JSON.stringify(theme, null, 2) + '\n'
next == JsonText(makeTheme, TRUE)

\* if (current !== next): console.error('Drift detected ...'); process.exit(2)
BuildDrift ==
  /\ buildPc = "start"
  /\ CHECK_MODE
  /\ themes[out] # absent
  /\ themes[out] # next
  /\ console' = Append(console, "Drift detected")
  /\ exitStatus' = Append(exitStatus, 2)
  /\ buildPc' = "exited"
  /\ UNCHANGED <<cliVars, extVars, annotateVars, buildArgs, env, themes>>

\* else: console.log('No drift'); return
BuildNoDrift ==
  /\ buildPc = "start"
  /\ CHECK_MODE
  /\ themes[out] # absent
  /\ themes[out] = next
  /\ console' = Append(console, "No drift")
  /\ buildPc' = "returned"
  /\ UNCHANGED <<cliVars, extVars, annotateVars, buildArgs, env, themes,
                 exitStatus>>

\* writeStableJson(file, obj)
writeStableJson(fs, f, obj) == [fs EXCEPT ![f] = JsonText(obj, TRUE)]

\* otherwise: writeStableJson(out, theme); console.log('Wrote ...')
BuildWrite ==
  /\ buildPc = "start"
  /\ ~(CHECK_MODE /\ themes[out] # absent)
  /\ themes' = writeStableJson(themes, out, makeTheme)
  /\ console' = Append(console, "Wrote")
  /\ buildPc' = "returned"
  /\ UNCHANGED <<cliVars, extVars, annotateVars, buildArgs, env, exitStatus>>

NextBuild ==
  \/ BuildDrift
  \/ BuildNoDrift
  \/ BuildWrite

SpecBuild == InitBuild /\ [][NextBuild]_vars

----------------------------------------------------------------------------
(* Claims.  A configured symbol is a key of symbols that maps to a         *)
(* SymbolSpec, that is, to a truthy entry.                                 *)

Configured(c) == c \in delimiters /\ symbolMap[c] # null

\* the scanned character closes the region on top of the stack
ClosingCase ==
  /\ InLoop
  /\ Configured(ch)
  /\ Len(stack) > 0
  /\ Top(stack).symbol = ch

\* the scanned character is a configured symbol that does not match the top
OpeningCase ==
  /\ InLoop
  /\ Configured(ch)
  /\ (Len(stack) = 0 \/ Top(stack).symbol # ch)

IsOpen(r) == "open" \in DOMAIN r

(* C1: whenever the scanned character is a configured symbol equal to the  *)
(* symbol of the top stack entry, that step pops exactly the top entry     *)
(* (the entries below are untouched) and appends exactly one range: its    *)
(* symbol is the character, its start and colour are those of the popped   *)
(* entry, its end is the cursor (line, col, index) of the closing          *)
(* character.                                                              *)
C1_ClosePopsTopAndEmits ==
  [][ClosingCase =>
       /\ stack' = SubSeq(stack, 1, Len(stack) - 1)
       /\ Len(ranges') = Len(ranges) + 1
       /\ SubSeq(ranges', 1, Len(ranges)) = ranges
       /\ ranges'[Len(ranges')].symbol = ch
       /\ ranges'[Len(ranges')].start = stack[Len(stack)].start
       /\ ranges'[Len(ranges')].color = stack[Len(stack)].color
       /\ ranges'[Len(ranges')].end = [line |-> line, col |-> col, index |-> i]
    ]_vars

\* a region was closed while an enclosing region stays on the stack
C1_Witness ==
  /\ pc = "scan"
  /\ Len(stack) >= 1
  /\ Len(ranges) >= 1
  /\ ~IsOpen(ranges[1])
  /\ ranges[1].start.index > stack[1].start.index
  /\ ranges[1].end.index = i - 1

C3_EofDrainsLifo ==
  /\ [][pc = "drain" /\ Len(stack) > 0 =>
          /\ stack' = SubSeq(stack, 1, Len(stack) - 1)
          /\ ranges' = Append(ranges,
               [symbol |-> stack[Len(stack)].symbol,
                color  |-> stack[Len(stack)].color,
                start  |-> stack[Len(stack)].start,
                end    |-> [line |-> line, col |-> col, index |-> Len(content)],
                open   |-> TRUE])
       ]_vars
  /\ [](pc = "done" =>
          /\ stack = <<>>
          /\ \A j, k \in 1..Len(ranges) :
               /\ (IsOpen(ranges[j]) /\ j < k) => IsOpen(ranges[k])
               /\ (IsOpen(ranges[j]) /\ IsOpen(ranges[k]) /\ j < k) =>
                    ranges[j].start.index > ranges[k].start.index)

\* two regions were left open behind a closed one, and all were returned
C3_Witness ==
  /\ pc = "done"
  /\ Len(ranges) = 3
  /\ ~IsOpen(ranges[1])
  /\ IsOpen(ranges[2])
  /\ IsOpen(ranges[3])
  /\ ranges[2].start.index > ranges[3].start.index
  /\ ranges[2].end = eofPos
  /\ ranges[3].end.index = Len(content)

----------------------------------------------------------------------------
(* Counting over the text and the result.                                  *)

ToSet(q) == {q[j] : j \in 1..Len(q)}

\* the positions (0-based) of the text that hold character c
Occurrences(c) == {j \in 0..(Len(content) - 1) : content[j + 1] = c}

ConfiguredSymbols == {c \in delimiters : symbolMap[c] # null}

RangesOf(c) == {j \in 1..Len(ranges) : ranges[j].symbol = c}

OpenRangesOf(c) == {j \in RangesOf(c) : IsOpen(ranges[j])}

(* C4: the number of ranges plus the stack depth equals the number of      *)
(* openings so far, every opening (identified by its index) is the start   *)
(* of exactly one range or stack entry, the returned ranges are as many as *)
(* the openings, and a text with no configured symbol returns no range.    *)
C4_OneRangePerOpening ==
  /\ Len(ranges) + Len(stack) = Len(opened)
  /\ \A o \in ToSet(opened) :
       Cardinality({j \in 1..Len(ranges) : ranges[j].start.index = o})
       + Cardinality({j \in 1..Len(stack) : stack[j].start.index = o}) = 1
  /\ pc = "done" => Len(ranges) = Len(opened)
  /\ (pc = "done" /\ \A c \in ToSet(content) : ~Configured(c)) => ranges = <<>>

\* three openings, one closed during the scan, two returned open
C4_Witness ==
  /\ pc = "done"
  /\ Len(opened) = 3
  /\ Len(ranges) = 3
  /\ Cardinality({j \in 1..3 : IsOpen(ranges[j])}) = 2

NestingExample == <<"tri", "x", "sq", "y", "sq", "z", "tri">>

(* C5: ranges are in closing order.  Closed ranges have strictly           *)
(* increasing end index, a range enclosed by another one comes before it,  *)
(* and with tri and sq configured the text tri x sq y sq z tri returns     *)
(* exactly the sq range around y followed by the tri range around the      *)
(* rest.                                                                   *)
C5_OrderedByClosing ==
  /\ \A j, k \in 1..Len(ranges) :
       /\ (j < k /\ ~IsOpen(ranges[j]) /\ ~IsOpen(ranges[k])) =>
            ranges[j].end.index < ranges[k].end.index
       /\ (/\ ranges[k].start.index < ranges[j].start.index
           /\ ranges[j].end.index <= ranges[k].end.index) => j < k
  /\ (/\ pc = "done"
      /\ content = NestingExample
      /\ ConfiguredSymbols \cap ToSet(content) = {"tri", "sq"}) =>
       /\ Len(ranges) = 2
       /\ ranges[1].symbol = "sq"
       /\ ranges[1].start.index = 2
       /\ ranges[1].end.index = 4
       /\ ~IsOpen(ranges[1])
       /\ ranges[2].symbol = "tri"
       /\ ranges[2].start.index = 0
       /\ ranges[2].end.index = 6
       /\ ~IsOpen(ranges[2])

\* the nesting example was annotated with tri and sq configured
C5_Witness ==
  /\ pc = "done"
  /\ content = NestingExample
  /\ ConfiguredSymbols \cap ToSet(content) = {"tri", "sq"}
  /\ Len(ranges) = 2

RECURSIVE NewlinesIn(_)
NewlinesIn(q) ==
  IF q = <<>> THEN 0
  ELSE NewlinesIn(Front(q)) + (IF Top(q) = "nl" THEN 1 ELSE 0)

RECURSIVE SinceNewline(_)
SinceNewline(q) ==
  IF q = <<>> \/ Top(q) = "nl" THEN 0 ELSE SinceNewline(Front(q)) + 1

(* C6: before character i is processed, line is the number of newlines     *)
(* among the first i characters and col the number of characters since the *)
(* last newline: every character but a newline advances col by one,        *)
(* whatever its configuration entry.                                       *)
C6_CursorTracksText ==
  pc = "scan" =>
    /\ line = NewlinesIn(SubSeq(content, 1, i))
    /\ col = SinceNewline(SubSeq(content, 1, i))

LineExample == <<"a", "nl", "tri", "b", "tri">>

\* the line example is annotated with tri the only configured character of it
LineExampleDone ==
  /\ pc = "done"
  /\ content = LineExample
  /\ Configured("tri")
  /\ delimiters \cap ToSet(content) = {"tri"}

(* C7, as claimed: the text a nl tri b tri with tri configured returns one *)
(* tri range with start.line = 1, start.col = 1, end.line = 1, end.col = 3.*)
C7_AsClaimed ==
  LineExampleDone =>
    /\ Len(ranges) = 1
    /\ ranges[1].symbol = "tri"
    /\ ranges[1].start.line = 1
    /\ ranges[1].start.col = 1
    /\ ranges[1].end.line = 1
    /\ ranges[1].end.col = 3

(* C7, amended: the text a nl tri b tri with tri configured returns one    *)
(* tri range with start.line = 1, start.col = 0, end.line = 1,             *)
(* end.col = 2: a position is the cursor before the delimiter is counted.  *)
C7_LineExample ==
  LineExampleDone =>
    /\ Len(ranges) = 1
    /\ ranges[1].symbol = "tri"
    /\ ranges[1].start.line = 1
    /\ ranges[1].start.col = 0
    /\ ranges[1].end.line = 1
    /\ ranges[1].end.col = 2

C7_Witness ==
  /\ LineExampleDone
  /\ Len(ranges) = 1
  /\ ~IsOpen(ranges[1])

\* position p is not after position q, by (line, col)
NotAfter(p, q) == p.line < q.line \/ (p.line = q.line /\ p.col <= q.col)

(* C8: no range has its start after its end, neither by index nor by       *)
(* (line, col) taken lexicographically.                                    *)
C8_StartNotAfterEnd ==
  \A j \in 1..Len(ranges) :
    /\ ranges[j].start.index <= ranges[j].end.index
    /\ NotAfter(ranges[j].start, ranges[j].end)

\* a returned range ends on a later line at a smaller column than its start
C8_Witness ==
  /\ pc = "done"
  /\ \E j \in 1..Len(ranges) :
       /\ ranges[j].start.line < ranges[j].end.line
       /\ ranges[j].start.col > ranges[j].end.col

Odd(n) == n % 2 = 1

DelimSeq == SelectSeq(content, Configured)

(* A sequence of symbols is well nested when it is empty or its first      *)
(* symbol pairs with a later equal one, with a well-nested sequence        *)
(* between the two and a well-nested sequence after them.                  *)
RECURSIVE WellNested(_)
WellNested(d) ==
  \/ d = <<>>
  \/ \E k \in 2..Len(d) :
       /\ d[k] = d[1]
       /\ WellNested(SubSeq(d, 2, k - 1))
       /\ WellNested(SubSeq(d, k + 1, Len(d)))

(* C10: when the configured symbols of the text form a well-nested         *)
(* sequence (so each occurs an even number of times), every returned range *)
(* is closed and each symbol has half as many ranges as occurrences.       *)
C10_WellNestedAllClosed ==
  (pc = "done" /\ WellNested(DelimSeq)) =>
    /\ \A j \in 1..Len(ranges) : ~IsOpen(ranges[j])
    /\ \A c \in ConfiguredSymbols :
         2 * Cardinality(RangesOf(c)) = Cardinality(Occurrences(c))

\* a pair nested in a pair of another symbol
C10_Witness ==
  /\ pc = "done"
  /\ WellNested(DelimSeq)
  /\ Len(DelimSeq) = 4
  /\ DelimSeq[1] # DelimSeq[2]
  /\ Len(ranges) = 2

----------------------------------------------------------------------------
(* Claims about two calls.                                                 *)

SecondDone == pc = "done" /\ prev # noCall

Boundary(r) ==
  [symbol |-> r.symbol, start |-> r.start, end |-> r.end, open |-> IsOpen(r)]

(* C12: range boundaries do not depend on the seed or the palette.  Two    *)
(* calls with the same text and symbols return lists of the same length    *)
(* that agree, position by position, on symbol, start, end and open flag.  *)
C12_BoundariesIgnoreSeed ==
  SecondDone =>
    /\ Len(ranges) = Len(prev.ranges)
    /\ \A j \in 1..Len(ranges) : Boundary(ranges[j]) = Boundary(prev.ranges[j])

\* the two calls differ in the seed only and return different colours
C12_Witness ==
  /\ SecondDone
  /\ prev.seed # seed
  /\ prev.palette = palette
  /\ Len(ranges) >= 2
  /\ \E j \in 1..Len(ranges) : ranges[j].color # prev.ranges[j].color

----------------------------------------------------------------------------
(* Claims about colours.                                                   *)

\* the scanned character opens a region of a symbol of kind k
OpeningOfKind(k) ==
  /\ InLoop
  /\ Configured(ch)
  /\ (Len(stack) = 0 \/ stack[Len(stack)].symbol # ch)
  /\ Kind(symbolMap[ch]) = k

(* C13: with a non-empty palette the colour of a random-kind opening is a  *)
(* palette colour; it is a colour of the used set only when every palette  *)
(* colour is in the used set at the draw; the draw adds the colour to the  *)
(* used set, and no step of a call (a close in particular) removes a       *)
(* colour from it.                                                         *)
C13_RandomDrawPrefersUnused ==
  /\ [][(OpeningOfKind("random") /\ Len(palette) > 0) =>
          /\ stack'[Len(stack')].color \in ToSet(palette)
          /\ stack'[Len(stack')].color \in usedColors =>
               ToSet(palette) \subseteq usedColors
          /\ usedColors' = usedColors \cup {stack'[Len(stack')].color}
       ]_vars
  /\ [][usedColors \subseteq usedColors']_vars

\* the palette was exhausted and a draw returned a colour used before
C13_Witness ==
  /\ pc = "scan"
  /\ Len(palette) = 2
  /\ Len(stack) = 2
  /\ Len(ranges) = 1
  /\ Kind(symbolMap[stack[2].symbol]) = "random"
  /\ stack[2].start.index > ranges[1].end.index
  /\ stack[2].color \in {stack[1].color, ranges[1].color}

\* the colour configured for a fixed-kind entry ('#CCCCCC' when it has none)
FixedColor(spec) == IF "color" \in DOMAIN spec THEN spec.color ELSE "#CCCCCC"

\* the regions opened so far, on the stack or already emitted
Regions == ToSet(stack) \cup {[symbol |-> r.symbol, color |-> r.color,
                               start |-> r.start] : r \in ToSet(ranges)}

\* the colours of the fixed-kind regions opened so far
FixedColorsOpened ==
  {e.color : e \in {r \in Regions : Kind(symbolMap[r.symbol]) = "onoff"}}

(* C14: a region opened by a fixed-kind symbol carries the colour          *)
(* configured for the symbol, and the colour is in the used set from the   *)
(* opening on; a later random draw does not return the colour of a         *)
(* fixed-kind region while a palette colour is unused.                     *)
C14_FixedColorVerbatimAndUsed ==
  /\ [][OpeningOfKind("onoff") =>
          /\ stack'[Len(stack')].color = FixedColor(symbolMap[ch])
          /\ FixedColor(symbolMap[ch]) \in usedColors'
       ]_vars
  /\ [](\A e \in Regions :
          Kind(symbolMap[e.symbol]) = "onoff" =>
            /\ e.color = FixedColor(symbolMap[e.symbol])
            /\ e.color \in usedColors)
  /\ [][(/\ OpeningOfKind("random")
         /\ ToSet(palette) \ usedColors # {}) =>
          stack'[Len(stack')].color \notin FixedColorsOpened
       ]_vars

(* the fixed colour is the palette's first colour, which seed 0 would draw *)
(* first; the random region opened inside the fixed one got the other one  *)
C14_Witness ==
  /\ pc = "scan"
  /\ seed = 0
  /\ Len(palette) = 2
  /\ Len(stack) = 2
  /\ Kind(symbolMap[stack[1].symbol]) = "onoff"
  /\ stack[1].color = palette[1]
  /\ Kind(symbolMap[stack[2].symbol]) = "random"
  /\ stack[2].color = palette[2]

(* C15: with an empty palette annotate does not fail.  Every region has a  *)
(* defined colour (a palette colour, a configured one or '#CCCCCC'), every *)
(* region of a random-kind symbol gets '#CCCCCC', the boundaries are those *)
(* of the call with a non-empty palette, and an empty text or an empty     *)
(* symbols mapping returns an empty list of ranges.                        *)
C15_EmptyPaletteNeutral ==
  /\ \A e \in Regions :
       e.color \in ToSet(palette) \cup {"#CCCCCC"} \cup FixedColorsOpened
  /\ Len(palette) = 0 =>
       \A e \in Regions :
         Kind(symbolMap[e.symbol]) = "random" => e.color = "#CCCCCC"
  /\ (SecondDone /\ Len(palette) = 0 /\ Len(prev.palette) > 0) =>
       /\ Len(ranges) = Len(prev.ranges)
       /\ \A j \in 1..Len(ranges) :
            /\ ranges[j].symbol = prev.ranges[j].symbol
            /\ ranges[j].start = prev.ranges[j].start
            /\ ranges[j].end = prev.ranges[j].end
            /\ IsOpen(ranges[j]) = IsOpen(prev.ranges[j])
  /\ (pc = "done" /\ (content = <<>> \/ delimiters = {})) => ranges = <<>>

(* the second call, with the empty palette, returned a neutral random-kind *)
(* range where the first call had returned a palette colour                *)
C15_Witness ==
  /\ SecondDone
  /\ Len(palette) = 0
  /\ Len(prev.palette) > 0
  /\ \E j \in 1..Len(ranges) :
       /\ Kind(symbolMap[ranges[j].symbol]) = "random"
       /\ ranges[j].color = "#CCCCCC"
       /\ prev.ranges[j].color # "#CCCCCC"

----------------------------------------------------------------------------
(* Claims about the open flag and about nesting.                           *)

(* C16: the field open is present, and true, exactly on the ranges of the  *)
(* regions that were on the stack at end of input.  No range has it while  *)
(* the text is scanned, a range appended by a closing occurrence has the   *)
(* fields symbol, color, start and end only, and every range appended      *)
(* after the scan comes from the stack and has open = true.                *)
C16_OpenOnlyOnUnclosed ==
  /\ [](pc = "scan" => \A j \in 1..Len(ranges) : "open" \notin DOMAIN ranges[j])
  /\ [][(pc = "scan" /\ ranges' # ranges) =>
          /\ Len(ranges') = Len(ranges) + 1
          /\ DOMAIN ranges'[Len(ranges')] = {"symbol", "color", "start", "end"}
       ]_vars
  /\ [][(pc = "drain" /\ ranges' # ranges) =>
          /\ Len(ranges') = Len(ranges) + 1
          /\ Len(stack) > 0
          /\ ranges'[Len(ranges')].start = stack[Len(stack)].start
          /\ DOMAIN ranges'[Len(ranges')] =
               {"symbol", "color", "start", "end", "open"}
          /\ ranges'[Len(ranges')].open = TRUE
       ]_vars
  /\ [][pc = "done" => ranges' = ranges]_vars

\* a result with a range without the field before a range with open = true
C16_Witness ==
  /\ pc = "done"
  /\ Len(ranges) = 2
  /\ DOMAIN ranges[1] = {"symbol", "color", "start", "end"}
  /\ "open" \in DOMAIN ranges[2]
  /\ ranges[2].open

\* the scanned character is a configured symbol with a region still open
SymbolSeenAgain ==
  /\ InLoop
  /\ Configured(ch)
  /\ \E j \in 1..Len(stack) : stack[j].symbol = ch

\* the innermost open region of the scanned symbol
Innermost ==
  CHOOSE j \in 1..Len(stack) :
    /\ stack[j].symbol = ch
    /\ \A k \in (j + 1)..Len(stack) : stack[k].symbol # ch

----------------------------------------------------------------------------
(* Claims about the shape of the stack and of the result.                  *)

\* how many of the characters scanned so far are c
Seen(c) == Cardinality({j \in Occurrences(c) : j < i})

ClosedRanges == {j \in 1..Len(ranges) : ~IsOpen(ranges[j])}

(* C22: at every step no two adjacent stack entries have the same symbol.  *)
(* When exactly one symbol is configured the stack is never deeper than 1  *)
(* and the symbol toggles: after k occurrences k mod 2 regions are open    *)
(* and floor(k / 2) ranges are closed, and the result of a text with k     *)
(* occurrences has floor(k / 2) closed and k mod 2 open ranges.            *)
C22_NoAdjacentSameSymbol ==
  /\ \A j \in 1..(Len(stack) - 1) : stack[j].symbol # stack[j + 1].symbol
  /\ \A c \in ConfiguredSymbols :
       ConfiguredSymbols = {c} =>
         /\ Len(stack) <= 1
         /\ Cardinality(ClosedRanges) = Seen(c) \div 2
         /\ pc = "scan" =>
              /\ Len(stack) = Seen(c) % 2
              /\ Len(ranges) = Seen(c) \div 2
         /\ pc = "done" =>
              /\ Seen(c) = Cardinality(Occurrences(c))
              /\ Len(ranges) - Cardinality(ClosedRanges) = Seen(c) % 2

\* the only configured symbol occurs three times: one closed range, one open
C22_Witness ==
  /\ pc = "done"
  /\ ConfiguredSymbols = {"sq"}
  /\ Cardinality(Occurrences("sq")) = 3
  /\ Cardinality(ClosedRanges) = 1
  /\ Len(ranges) = 2
  /\ IsOpen(ranges[2])

\* range a lies within range b, as intervals of indexes
Within(a, b) ==
  b.start.index <= a.start.index /\ a.end.index <= b.end.index

\* range a ends before range b starts
Before(a, b) == a.end.index < b.start.index

(* C23: the ranges never partially overlap.  Any two of them, taken as     *)
(* intervals from start.index to end.index, are nested or disjoint, and no *)
(* two closed ranges have the same start index or the same end index.      *)
C23_NestedOrDisjoint ==
  \A j, k \in 1..Len(ranges) :
    j # k =>
      /\ \/ Within(ranges[j], ranges[k])
         \/ Within(ranges[k], ranges[j])
         \/ Before(ranges[j], ranges[k])
         \/ Before(ranges[k], ranges[j])
      /\ (j \in ClosedRanges /\ k \in ClosedRanges) =>
           /\ ranges[j].start.index # ranges[k].start.index
           /\ ranges[j].end.index # ranges[k].end.index

\* a result with a range nested in another one and a closed range before both
C23_Witness ==
  /\ pc = "done"
  /\ Len(ranges) = 3
  /\ 1 \in ClosedRanges
  /\ Before(ranges[1], ranges[2])
  /\ Before(ranges[1], ranges[3])
  /\ Within(ranges[2], ranges[3])
  /\ ranges[3].start.index < ranges[2].start.index

----------------------------------------------------------------------------
(* Claims about the command line.                                          *)

\* main has returned or the process has exited
Terminated == mainPc \in {"returned", "exited"}

\* the command names an input file
HasFile == Len(args.positional) >= 1

\* the paths whose content differs from what it was before the command ran
Modified == {p \in DOMAIN files : files[p] # InitialFiles[p]}

(* C18: a run of the command never modifies the source file: whatever the  *)
(* arguments, --out included, the input file holds after main what it held *)
(* before, and the only file written is the sidecar, by default            *)
(* <file>.ann.json.                                                        *)
C18_SourceFileUntouched ==
  HasFile =>
    /\ files[file] = InitialFiles[file]
    /\ Modified \subseteq {outPath} \ {file}
    /\ "out" \notin DOMAIN args => Modified \subseteq {AnnJson(file)}

\* the option names a path at which there is no file to read
Unreadable(name) ==
  name \in DOMAIN args /\ ~existsSync(InitialFiles, args[name])

\* the option names a file that can be read and does not hold JSON
Malformed(name) ==
  /\ name \in DOMAIN args
  /\ existsSync(InitialFiles, args[name])
  /\ "text" \in DOMAIN InitialFiles[args[name]]

(* C19: when the input file exists, a --config or --palette file that can  *)
(* be read but holds malformed JSON makes the run use the built-in default *)
(* (the default symbols, the default palette of 12 colours) and the        *)
(* sidecar is still written; a --config or --palette path that cannot be   *)
(* read is fatal: the error is reported, the process exits with a nonzero  *)
(* code and no file is written.                                            *)
C19_MalformedFallsBackUnreadableFatal ==
  Terminated /\ HasFile /\ existsSync(InitialFiles, file) =>
    IF Unreadable("config") \/ Unreadable("palette")
    THEN /\ mainPc = "exited"
         /\ exited = <<1>>
         /\ stderr # <<>>
         /\ files = InitialFiles
    ELSE /\ mainPc = "returned"
         /\ exited = <<>>
         /\ "object" \in DOMAIN files[outPath]
         /\ Malformed("config") =>
              files[outPath].object.legend.symbols = buildDefaultConfig
         /\ Malformed("palette") =>
              /\ files[outPath].object.legend.palette = defaultPalette
              /\ Len(files[outPath].object.legend.palette) = 12

\* a run with a malformed configuration file has written its sidecar
C19_Witness ==
  /\ mainPc = "returned"
  /\ Malformed("config")
  /\ "palette" \in DOMAIN args /\ ~Malformed("palette")
  /\ "object" \in DOMAIN files[outPath]
  /\ files[outPath].object.legend.symbols = buildDefaultConfig
  /\ files[outPath].object.ranges # <<>>

----------------------------------------------------------------------------
(* Claims about the extension.                                             *)

(* C20: the cache of decoration types lives only between activate and      *)
(* deactivate: however activate, the callbacks, the command, the timer and *)
(* deactivate interleave, no two decoration types are created for one      *)
(* colour, and once deactivate has run every decoration type created so    *)
(* far is disposed, so that none is created after it.                      *)
C20_CacheLivesUntilDeactivate ==
  /\ \A j, k \in DOMAIN created : created[j] = created[k] => j = k
  /\ lifecycle = "deactivated" => disposed = DOMAIN created

\* the ranges of colour c that applyAnnotations is to show for the array rs
ShownFor(rs, c) ==
  LET sel == SelectSeq(rs, LAMBDA r : WellFormedEntry(r) /\ r.color = c)
  IN  [k \in 1..Len(sel) |-> ToRange(sel[k])]

(* C21: after a refresh the editor's decorations reflect only the sidecar  *)
(* that refresh read: for each cached colour the editor holds exactly the  *)
(* well-formed ranges of that colour, in the order of the sidecar, so a    *)
(* colour cached earlier and absent now has an empty list; every colour of *)
(* a well-formed range is cached; and when the sidecar is missing,         *)
(* unparseable or without a ranges array every decoration type is cleared. *)
C21_DecorationsReflectSidecar ==
  refreshed =>
    LET data  == readAnnotations(sidecar)
        types == decorationTypes.map
    IN  IF data = null
        THEN \A id \in DOMAIN decorations : decorations[id] = <<>>
        ELSE LET rs == data.ranges.array
             IN  /\ \A c \in DOMAIN types :
                      decorations[types[c]] = ShownFor(rs, c)
                 /\ \A k \in DOMAIN rs :
                      WellFormedEntry(rs[k]) => rs[k].color \in DOMAIN types
                 /\ \A id \in DOMAIN decorations \ Values(types) :
                      decorations[id] = <<>>

(* a refresh has left the colour cached first with nothing to show and the *)
(* colour cached second with a range                                       *)
C21_Witness ==
  /\ refreshed
  /\ lifecycle = "active"
  /\ Len(created) = 2
  /\ Values(decorationTypes.map) = {1, 2}
  /\ decorations[1] = <<>>
  /\ decorations[2] # <<>>

----------------------------------------------------------------------------
(* Claims about the theme build.                                           *)

(* C24: run with --check, the build never creates or changes               *)
(* themes/<slug>.json: it leaves every file as it was, exits with status 2 *)
(* exactly when what the file holds differs from the freshly generated     *)
(* text, and reports no drift otherwise; only a run without --check        *)
(* writes the file.                                                        *)
C24_CheckNeverWrites ==
  [][CHECK_MODE =>
       /\ themes' = themes
       /\ (exitStatus' = <<2>>) <=> (themes[out] # next)
       /\ exitStatus' # <<2>> =>
            (exitStatus' = <<>> /\ console' = <<"No drift">>)
    ]_vars

====
